---- MODULE Spec2Model ----
(***************************************************************************)
(* Episode reset and evaluation of the pick-and-place environments of      *)
(* ManiSkill2_real2sim:                                                    *)
(*   GraspSingleInSceneEnv   envs/pick_and_place/grasp_single_in_scene.py  *)
(*   MoveNearInSceneEnv      envs/pick_and_place/custom_scenes/            *)
(*                           move_near_in_scene.py                         *)
(* One environment instance is modelled; its class is fixed at             *)
(* construction.  Lengths are in centimetres, scales in tenths (10 = 1.0). *)
(* Every public method is one action; a method that raises leaves the      *)
(* assignments it made before the exception in place, as Python does.      *)
(***************************************************************************)
EXTENDS Integers, Sequences, FiniteSets, TLC

(***************************************************************************)
(* Bounds of the model.                                                    *)
(***************************************************************************)
\* seeds a caller passes to reset are 0..MaxSeed
MaxSeed == 2
\* self.sim_freq, the simulation steps per second (small, to keep the record
\* of a settling procedure short)
sim_freq == 4
\* the grasp counter is followed up to this value
MaxGrasp == 6

(***************************************************************************)
(* Python values.                                                          *)
(***************************************************************************)
\* None, where a model id is expected
NoneId == "None"
\* None, where a scale is expected (scales are positive)
NoneScale == 0
\* None, where a bounding-box size is expected
NoneBBox == <<>>
\* None, where a seed is expected
NoneSeed == 0 - 1
\* self.obj = None: no actor has been built
NoActor == [model_id |-> NoneId, scale |-> NoneScale]
\* no evaluation result
NoInfo == [none |-> TRUE]
\* no position
NoXY == 0 - 1
\* no height
NoHeight == 0 - 1
\* no reward computed
NoReward == [none |-> TRUE]

(***************************************************************************)
(* Python dicts with string keys: a record of the entries, and EmptyDict   *)
(* for a dict without entries.                                             *)
(***************************************************************************)
EmptyDict == [none |-> TRUE]

\* the keys of d
Keys(d) == DOMAIN d \ {"none"}

\* the dict with the entries e over the keys ks
MakeDict(ks, e) == IF ks = {} THEN EmptyDict ELSE [k \in ks |-> e[k]]

\* d.get(k, default)
Get(d, k, default) == IF k \in Keys(d) THEN d[k] ELSE default

\* d after d.pop(k, default)
Pop(d, k) == MakeDict(Keys(d) \ {k}, d)

\* d after d[k] = v
Put(d, k, v) ==
    [x \in Keys(d) \cup {k} |-> IF x = k THEN v ELSE d[x]]

(***************************************************************************)
(* The model database (self.model_db, loaded from the model JSON) and the  *)
(* registered candidates (self.model_ids).  A record without "scales" is   *)
(* written scales = <<>>, one without "bbox" has_bbox = FALSE.             *)
(***************************************************************************)
model_db ==
    [a |-> [scales |-> <<>>, has_bbox |-> TRUE,
            bbox_min |-> <<0 - 3, 0 - 4, 0 - 5>>, bbox_max |-> <<3, 4, 5>>],
     b |-> [scales |-> <<5, 10>>, has_bbox |-> TRUE,
            bbox_min |-> <<0 - 2, 0 - 2, 0>>, bbox_max |-> <<2, 2, 6>>],
     c |-> [scales |-> <<>>, has_bbox |-> FALSE,
            bbox_min |-> <<0, 0, 0>>, bbox_max |-> <<0, 0, 0>>]]

\* model_ids = sorted(self.model_db.keys()), the default of both constructors
model_ids == <<"a", "b", "c">>

\* what a caller passes as options["model_id"]: absent, a known id, an unknown one
IdArgs == {NoneId, "a", "b", "x"}
\* what a caller passes as options["model_scale"]: absent, 0.5, 1.0
ScaleArgs == {NoneScale, 5, 10}
\* what a caller passes as seed
SeedArgs == {NoneSeed} \cup (0 .. MaxSeed)
\* What a caller passes as options["obj_init_options"]: nothing, or init_xy
\* as an array with one row (one x/y place) per object.  The environment has
\* one object; <<2>> is the one-row array the code expects (a flat [x, y]),
\* <<2, 1>> an array of two rows.
ObjInitArgs == {[none |-> TRUE], [init_xy |-> <<2>>], [init_xy |-> <<2, 1>>]}

\* np.hstack([obj_init_xy, obj_init_z]) raises ValueError for an array of
\* more than one row: a two-dimensional array cannot be stacked with a scalar
HStackRaises(init_xy) == Len(init_xy) # 1

(***************************************************************************)
(* The episode random stream.  set_episode_rng and random_choice live in   *)
(* the base environment and in utils.common; the stream is a small         *)
(* congruential generator, deterministic in the seed.                      *)
(***************************************************************************)
\* np.random.RandomState(seed)
SeedRng(seed) == (seed + 3) % 8

\* the stream after one draw
RngNext(r) == (5 * r + 1) % 8

\* random_choice(x, rng): x[0] for a one-element list, else x[rng.choice(len(x))]
RandomChoice(x, r) == IF Len(x) = 1 THEN x[1] ELSE x[(r % Len(x)) + 1]

\* the stream after random_choice(x, rng)
RngAfterChoice(x, r) == IF Len(x) = 1 THEN r ELSE RngNext(r)

\* np.array([-0.2, 0.2]) + rng.uniform(-0.05, 0.05, [2]): one of two places
UniformXY(r) == r % 2

(***************************************************************************)
(* The Google robot config (agents/configs/google_robot/defaults.py).      *)
(* Gains and limits are integers (1e3 = 1000); bounds are in units of      *)
(* 1e-4.  A list attribute of a controller config is either the config     *)
(* object's own list (a reference, Ref) or a list of its own (Own).        *)
(***************************************************************************)
\* how many times the controllers property is read
MaxAccess == 2
\* how many times a user modifies a returned mapping
MaxEdits == 1

\* GoogleRobotDefaultConfig.__init__(mobile_base): the fields the controllers
\* are built from
GoogleRobotDefaultConfig(mobile_base) ==
    [mobile_base |-> mobile_base,
     base_joint_names |-> <<"joint_wheel_left", "joint_wheel_right">>,
     base_damping |-> 1000,
     base_force_limit |-> 500,
     arm_joint_names |->
        <<"joint_torso", "joint_shoulder", "joint_bicep", "joint_elbow",
          "joint_forearm", "joint_wrist", "joint_gripper", "joint_head_pan",
          "joint_head_tilt">>,
     arm_stiffness |-> 1000,
     arm_damping |-> 100,
     arm_force_limit |-> 100,
     gripper_finger_joint_names |-> <<"joint_finger_right", "joint_finger_left">>,
     gripper_finger_stiffness |-> 1000,
     gripper_finger_damping |-> 100,
     gripper_finger_force_limit |-> 100,
     ee_link_name |-> "link_gripper_tcp"]

\* GoogleRobotStaticBaseConfig() and GoogleRobotMobileBaseConfig()
GoogleRobotStaticBaseConfig == GoogleRobotDefaultConfig(FALSE)
GoogleRobotMobileBaseConfig == GoogleRobotDefaultConfig(TRUE)

\* a reference to the list self.<field> of the config object
Ref(field) == [ref |-> field]
\* a list that belongs to the controller config holding it
Own(list) == [list |-> list]
\* the elements of the list a slot stands for, the config object being cfg
Deref(slot, cfg) == IF "ref" \in DOMAIN slot THEN cfg[slot.ref] ELSE slot.list

\* PDBaseVelControllerConfig(joint_names, lower, upper, damping, force_limit)
PDBaseVelControllerConfig(joint_names, lower, upper, damping, force_limit) ==
    [class |-> "PDBaseVelControllerConfig", joint_names |-> joint_names,
     lower |-> lower, upper |-> upper, damping |-> damping,
     force_limit |-> force_limit]

\* PDEEPoseControllerConfig(joint_names, -0.1, 0.1, 0.1, stiffness, damping,
\* force_limit, ee_link, frame, use_target)
PDEEPoseControllerConfig(joint_names, stiffness, damping, force_limit, ee_link, frame, use_target) ==
    [class |-> "PDEEPoseControllerConfig", joint_names |-> joint_names,
     pos_lower |-> 0 - 1000, pos_upper |-> 1000, rot_bound |-> 1000,
     stiffness |-> stiffness, damping |-> damping, force_limit |-> force_limit,
     ee_link |-> ee_link, frame |-> frame, use_target |-> use_target]

\* PDJointPosMimicControllerConfig(joint_names, lower, upper, stiffness,
\* damping, force_limit, use_delta)
PDJointPosMimicControllerConfig(joint_names, lower, upper, stiffness, damping, force_limit, use_delta) ==
    [class |-> "PDJointPosMimicControllerConfig", joint_names |-> joint_names,
     lower |-> lower, upper |-> upper, stiffness |-> stiffness,
     damping |-> damping, force_limit |-> force_limit, use_delta |-> use_delta]

\* None, where a controller name is expected
NoneName == "None"

\* what `for base_controller_name in _C["base"]` iterates over: the keys of
\* the dict of base controllers, or the list [None]
BaseNames(cfg) == IF cfg.mobile_base THEN <<"base_pd_joint_vel">> ELSE <<NoneName>>

\* _C["base"] of a mobile base (lines 85-94)
BaseControllers(cfg) ==
    [base_pd_joint_vel |->
        PDBaseVelControllerConfig(Ref("base_joint_names"), 0 - 5000, 5000,
                                  cfg.base_damping, cfg.base_force_limit)]

\* the keys of _C["arm"], in insertion order
ArmNames ==
    <<"arm_pd_ee_delta_pose", "arm_pd_ee_delta_pose_base",
      "arm_pd_ee_target_delta_pose_base">>

\* _C["arm"] (lines 101-139)
ArmControllers(cfg) ==
    [arm_pd_ee_delta_pose |->
        PDEEPoseControllerConfig(Ref("arm_joint_names"), cfg.arm_stiffness,
            cfg.arm_damping, cfg.arm_force_limit, cfg.ee_link_name, "ee", FALSE),
     arm_pd_ee_delta_pose_base |->
        PDEEPoseControllerConfig(Ref("arm_joint_names"), cfg.arm_stiffness,
            cfg.arm_damping, cfg.arm_force_limit, cfg.ee_link_name, "base", FALSE),
     arm_pd_ee_target_delta_pose_base |->
        PDEEPoseControllerConfig(Ref("arm_joint_names"), cfg.arm_stiffness,
            cfg.arm_damping, cfg.arm_force_limit, cfg.ee_link_name, "base", TRUE)]

\* the keys of _C["gripper_finger"], in insertion order
GripperNames ==
    <<"gripper_finger_pd_joint_pos", "gripper_finger_pd_joint_delta_pos">>

\* _C["gripper_finger"] (lines 144-164)
GripperControllers(cfg) ==
    [gripper_finger_pd_joint_pos |->
        PDJointPosMimicControllerConfig(Ref("gripper_finger_joint_names"),
            0 - 1, 13000, cfg.gripper_finger_stiffness,
            cfg.gripper_finger_damping, cfg.gripper_finger_force_limit, FALSE),
     gripper_finger_pd_joint_delta_pos |->
        PDJointPosMimicControllerConfig(Ref("gripper_finger_joint_names"),
            0 - 10000, 10000, cfg.gripper_finger_stiffness,
            cfg.gripper_finger_damping, cfg.gripper_finger_force_limit, TRUE)]

\* the combined name without the gripper controller's name
CombinedNameNoGripper(b, a, g) ==
    IF b # NoneName THEN b \o "_" \o a ELSE a

\* combined_name (lines 175-177)
CombinedName(b, a, g) ==
    IF b # NoneName THEN b \o "_" \o a \o "_" \o g ELSE a \o "_" \o g

\* c (lines 170-174)
CombinedControllers(cfg, b, a, g) ==
    IF b # NoneName
    THEN [base |-> BaseControllers(cfg)[b], arm |-> ArmControllers(cfg)[a],
          gripper_finger |-> GripperControllers(cfg)[g]]
    ELSE [arm |-> ArmControllers(cfg)[a],
          gripper_finger |-> GripperControllers(cfg)[g]]

\* controller_configs when the three loops are over (lines 166-178): the
\* triples are visited in order, and a later triple with the same combined
\* name replaces the entry of an earlier one
ControllerConfigs(cfg) ==
    LET triples ==
            {<<i, j, k>> : i \in 1 .. Len(BaseNames(cfg)),
                           j \in 1 .. Len(ArmNames), k \in 1 .. Len(GripperNames)}
        name(t) == CombinedName(BaseNames(cfg)[t[1]], ArmNames[t[2]],
                                GripperNames[t[3]])
        order(t) == ((t[1] * Len(ArmNames)) + t[2]) * Len(GripperNames) + t[3]
        latest(n) == CHOOSE t \in triples :
                        /\ name(t) = n
                        /\ \A u \in triples : name(u) = n => order(u) <= order(t)
    IN [n \in {name(t) : t \in triples} |->
            CombinedControllers(cfg, BaseNames(cfg)[latest(n)[1]],
                                ArmNames[latest(n)[2]], GripperNames[latest(n)[3]])]

\* the mapping returned as it is, without a copy
ReturnUncopied(configs, cfg) == configs

\* deepcopy_dict(controller_configs) (line 181): every entry, every
\* controller config in it and every list a controller config holds is a new
\* object with the contents of the original
DeepcopyDict(configs, cfg) ==
    [n \in DOMAIN configs |->
        [part \in DOMAIN configs[n] |->
            [configs[n][part] EXCEPT
                !.joint_names = Own(Deref(configs[n][part].joint_names, cfg))]]]

\* the property controllers (lines 77-181)
Controllers(cfg) == DeepcopyDict(ControllerConfigs(cfg), cfg)

\* the contents of a mapping of controller configs, the config object being
\* cfg: every list written out
Contents(m, cfg) ==
    [n \in DOMAIN m |->
        [part \in DOMAIN m[n] |->
            [m[n][part] EXCEPT !.joint_names = Deref(m[n][part].joint_names, cfg)]]]

(***************************************************************************)
(* State.                                                                  *)
(***************************************************************************)
VARIABLES
    cls,                    \* the class of the instance
    attrs,                  \* the instance attributes that exist
    model_id,               \* self.model_id
    model_scale,            \* self.model_scale
    model_bbox_size,        \* self.model_bbox_size
    episode_seed,           \* self._episode_seed
    rng,                    \* self._episode_rng
    obj_init_options,       \* self.obj_init_options (MoveNear)
    obj,                    \* self.obj: the actor in the scene
    obj_init_actual_xy_center, \* self.obj_init_actual_xy_center (GraspSingle)
    obj_xy,                 \* where _initialize_actors last placed the actor
    obj_height_after_settle,\* self.obj_height_after_settle (MoveNear)
    consecutive_grasp,      \* self.consecutive_grasp (MoveNear)
    lifted_obj_during_consecutive_grasp, \* (MoveNear)
    require_lifting_obj_for_success,     \* (MoveNear)
    last,                   \* the last call: arguments and outcome
    info,                   \* what the last evaluate returned
    reward,                 \* what the reward functions returned for info
    settle_log,             \* what the last _initialize_actors did, in order
    ctor,                   \* the call of __init__: arguments and outcome
    episode,                \* the episode object set of MoveNearInSceneEnv
    obj_orientation,        \* self.obj_upright, self.obj_laid_vertically,
                            \* self.obj_lr_switch (fixed-orientation classes)
    grasp_run,              \* how many of the latest evaluate calls of
                            \* MoveNearInSceneEnv, counted back from the last
                            \* one, found the object grasped
    robot_config,           \* the fields of the Google robot config object
    returned,               \* the mappings the controllers property has
                            \* returned, as they are now
    returned_log,           \* for each of them, its contents when it was
                            \* returned and the number of edits made before
    edits                   \* how many times a returned mapping was modified

vars == <<cls, attrs, model_id, model_scale, model_bbox_size, episode_seed, rng,
          obj_init_options, obj, obj_init_actual_xy_center, obj_xy,
          obj_height_after_settle, consecutive_grasp,
          lifted_obj_during_consecutive_grasp, require_lifting_obj_for_success,
          last, info, reward, settle_log, ctor, episode, obj_orientation,
          grasp_run, robot_config, returned, returned_log, edits>>

modelVars == <<model_id, model_scale, model_bbox_size>>
sceneVars == <<obj, obj_init_actual_xy_center, obj_xy, obj_height_after_settle>>
graspVars == <<consecutive_grasp, lifted_obj_during_consecutive_grasp, grasp_run>>
ctorVars == <<ctor, episode, obj_orientation>>
robotVars == <<robot_config, returned, returned_log, edits>>
envVars == <<cls, attrs, modelVars, episode_seed, rng, obj_init_options,
             sceneVars, graspVars, require_lifting_obj_for_success, last, info,
             reward, settle_log, ctorVars>>

(***************************************************************************)
(* Construction.                                                           *)
(***************************************************************************)
GraspSingle == "GraspSingleInSceneEnv"
MoveNear == "MoveNearInSceneEnv"
CustomOrientation == "GraspSingleCustomOrientationInSceneEnv"

\* the orientation flags of GraspSingleCustomOrientationInSceneEnv.__init__;
\* all false is the default, and stands for a class without the flags
NoOrientation == [upright |-> FALSE, laid_vertically |-> FALSE, lr_switch |-> FALSE]
Orientations == [upright : BOOLEAN, laid_vertically : BOOLEAN, lr_switch : BOOLEAN]

\* the model attributes GraspSingleInSceneEnv.__init__ assigns
GraspSingleAttrs == {"model_id", "model_scale", "model_bbox_size"}

\* Attributes MoveNearInSceneEnv reads and never assigns before the read.
\* They exist only if something outside the file (a base class, a subclass,
\* the caller) has assigned them.
SuppliedAttrs ==
    {"model_id", "model_scale", "consecutive_grasp",
     "lifted_obj_during_consecutive_grasp", "require_lifting_obj_for_success"}

\* the call record of a fresh instance
NoCall ==
    [op |-> "init", raised |-> "", seed |-> NoneSeed, arg_id |-> NoneId,
     arg_scale |-> NoneScale, arg_reconfigure |-> FALSE, id_changed |-> FALSE,
     scale_changed |-> FALSE, flag_set |-> FALSE, reconfigure |-> FALSE,
     base_reached |-> FALSE,
     in_grasped |-> FALSE, in_flag |-> FALSE, in_height |-> NoHeight,
     options |-> EmptyDict, options_after |-> EmptyDict]

\* self.model_scale = None
InitialModelScale == NoneScale

\* no episode object set (GraspSingleInSceneEnv keeps none)
NoEpisode == [none |-> TRUE]

\* the elements of a list
Range(x) == {x[i] : i \in 1 .. Len(x)}

\* What __init__ is given: whether the model JSON exists, the model_ids
\* argument (a list, or a single string), and the model ids that have a model
\* directory and a collision.obj under asset_root.
DefaultCtorArgs ==
    [json_exists |-> TRUE, is_str |-> FALSE, ids |-> <<>>,
     dirs |-> {"a", "b", "c"}, collisions |-> {"a", "b", "c"}]

\* model_ids arguments tried: the default, lists of 1 to 4 ids with and
\* without repetitions
CtorIdLists ==
    {<<>>, <<"a">>, <<"a", "b">>, <<"a", "a", "a">>, <<"a", "b", "b">>,
     <<"a", "b", "c">>, <<"c", "a", "b", "a">>}

CtorArgs ==
    {a \in {[json_exists |-> j, is_str |-> FALSE, ids |-> l, dirs |-> d,
             collisions |-> k] :
                j \in BOOLEAN, l \in CtorIdLists,
                d \in SUBSET {"a", "b", "c"}, k \in SUBSET {"a", "b", "c"}} :
        a.collisions \subseteq a.dirs}
    \cup
    {[json_exists |-> j, is_str |-> TRUE, ids |-> <<"a">>, dirs |-> d, collisions |-> d] :
        j \in BOOLEAN, d \in {{"a", "b", "c"}, {"b"}}}

\* _check_assets without a check, as the two base classes define it
CheckAssetsPass(ids, dirs, collisions) == ""

\* _check_assets of the environments that load models from asset_root: the
\* first registered id without a model directory, or without collision.obj in
\* it, raises FileNotFoundError
CheckAssets(ids, dirs, collisions) ==
    IF \E i \in 1 .. Len(ids) : ids[i] \notin dirs \/ ids[i] \notin collisions
    THEN "FileNotFoundError"
    ELSE ""

\* the minimum number of entries MoveNearInSceneEnv.__init__ asserts
MinModelIds == 3

\* The record of a call of __init__: its arguments, the exception raised
\* ("" for none), self.model_ids if it was assigned (else <<>>), and whether
\* the constructor of the base environment was called.
CtorRecord(a, raised, ids, base) ==
    [op |-> "init", json_exists |-> a.json_exists, is_str |-> a.is_str,
     ids |-> a.ids, dirs |-> a.dirs, collisions |-> a.collisions,
     raised |-> raised, model_ids |-> ids, base_init |-> base]

\* an instance on which __init__ has not run
NotConstructed(a) ==
    [op |-> "new", json_exists |-> a.json_exists, is_str |-> a.is_str,
     ids |-> a.ids, dirs |-> a.dirs, collisions |-> a.collisions,
     raised |-> "", model_ids |-> <<>>, base_init |-> FALSE]

\* GraspSingleInSceneEnv.__init__(model_json, model_ids) with the
\* _check_assets of GraspSingleYCBInSceneEnv
CtorGraspSingle(a) ==
    LET ids == IF Len(a.ids) = 0 THEN model_ids ELSE a.ids
        missing == CheckAssets(ids, a.dirs, a.collisions)
    IN
    IF ~a.json_exists THEN CtorRecord(a, "FileNotFoundError", <<>>, FALSE)
    ELSE IF Len(ids) = 0 THEN CtorRecord(a, "AssertionError", <<>>, FALSE)
    ELSE IF missing # "" THEN CtorRecord(a, missing, ids, FALSE)
    ELSE CtorRecord(a, "", ids, TRUE)

\* MoveNearInSceneEnv.__init__(model_json, model_ids) with the _check_assets
\* of lines 355-371
CtorMoveNear(a) ==
    LET ids == IF Len(a.ids) = 0 THEN model_ids ELSE a.ids
        missing == CheckAssets(ids, a.dirs, a.collisions)
    IN
    IF ~a.json_exists THEN CtorRecord(a, "FileNotFoundError", <<>>, FALSE)
    ELSE IF a.is_str THEN CtorRecord(a, "ValueError", <<>>, FALSE)
    ELSE IF ~(Len(ids) >= MinModelIds) THEN CtorRecord(a, "AssertionError", <<>>, FALSE)
    ELSE IF missing # "" THEN CtorRecord(a, missing, ids, FALSE)
    ELSE CtorRecord(a, "", ids, TRUE)

\* the episode object set MoveNearInSceneEnv.__init__ assigns (lines 76-79)
EpisodeOf(c) ==
    IF Len(c.model_ids) = 0 THEN NoEpisode
    ELSE [model_ids |-> SubSeq(c.model_ids, 1, 3),
          model_scales |-> [i \in 1 .. 3 |-> NoneScale],
          model_bbox_sizes |-> [i \in 1 .. 3 |-> NoneBBox],
          model_init_xyz |-> [i \in 1 .. 3 |-> NoXY]]

\* GraspSingleInSceneEnv.__init__, up to the call of the base constructor
InitGraspSingle ==
    /\ cls = GraspSingle
    /\ attrs = GraspSingleAttrs
    /\ model_id = model_ids[1]
    /\ model_scale = InitialModelScale
    /\ model_bbox_size = NoneBBox
    /\ obj_init_options = [none |-> TRUE]
    /\ consecutive_grasp = 0
    /\ lifted_obj_during_consecutive_grasp = FALSE
    /\ require_lifting_obj_for_success = FALSE
    /\ ctor = CtorGraspSingle(DefaultCtorArgs)
    /\ episode = NoEpisode
    /\ obj_orientation = NoOrientation

\* GraspSingleCustomOrientationInSceneEnv.__init__(upright, laid_vertically,
\* lr_switch): the three flags, then the constructor of GraspSingleInSceneEnv
InitCustomOrientation ==
    /\ cls = CustomOrientation
    /\ attrs = GraspSingleAttrs
    /\ model_id = model_ids[1]
    /\ model_scale = InitialModelScale
    /\ model_bbox_size = NoneBBox
    /\ obj_init_options = [none |-> TRUE]
    /\ consecutive_grasp = 0
    /\ lifted_obj_during_consecutive_grasp = FALSE
    /\ require_lifting_obj_for_success = FALSE
    /\ ctor = CtorGraspSingle(DefaultCtorArgs)
    /\ episode = NoEpisode
    /\ obj_orientation \in Orientations

\* MoveNearInSceneEnv.__init__, up to the call of the base constructor: it
\* assigns episode_model_ids and its companions, and neither model_id nor
\* model_scale nor the grasp bookkeeping.
InitMoveNear ==
    /\ cls = MoveNear
    /\ \/ /\ attrs = {}
          /\ require_lifting_obj_for_success = FALSE
       \/ /\ attrs = SuppliedAttrs
          /\ require_lifting_obj_for_success \in BOOLEAN
    /\ model_id = model_ids[1]
    /\ model_scale = InitialModelScale
    /\ model_bbox_size = NoneBBox
    /\ obj_init_options = [none |-> TRUE]
    /\ consecutive_grasp = 0
    /\ lifted_obj_during_consecutive_grasp = FALSE
    /\ ctor = CtorMoveNear(DefaultCtorArgs)
    /\ episode = EpisodeOf(ctor)
    /\ obj_orientation = NoOrientation

\* the attributes of an instance that no method has assigned
Unassigned ==
    /\ episode_seed = NoneSeed
    /\ rng = 0
    /\ obj = NoActor
    /\ obj_init_actual_xy_center = NoXY
    /\ obj_xy = NoXY
    /\ obj_height_after_settle = NoHeight
    /\ last = NoCall
    /\ info = NoInfo
    /\ reward = NoReward
    /\ settle_log = <<>>
    /\ grasp_run = 0

\* no robot config object has been built
NoRobotConfig == [none |-> TRUE]

\* the environments are followed without the config of their robot
NoRobot ==
    /\ robot_config = NoRobotConfig
    /\ returned = <<>>
    /\ returned_log = <<>>
    /\ edits = 0

Init ==
    /\ InitGraspSingle \/ InitMoveNear
    /\ Unassigned
    /\ NoRobot

\* an instance of either class before __init__ runs, with any arguments
InitNew ==
    /\ cls \in {GraspSingle, MoveNear}
    /\ \E a \in CtorArgs : ctor = NotConstructed(a)
    /\ attrs = {}
    /\ model_id = NoneId
    /\ model_scale = NoneScale
    /\ model_bbox_size = NoneBBox
    /\ obj_init_options = [none |-> TRUE]
    /\ consecutive_grasp = 0
    /\ lifted_obj_during_consecutive_grasp = FALSE
    /\ require_lifting_obj_for_success = FALSE
    /\ episode = NoEpisode
    /\ obj_orientation = NoOrientation
    /\ Unassigned
    /\ NoRobot

\* the arguments of the call recorded in c
ArgsOf(c) ==
    [json_exists |-> c.json_exists, is_str |-> c.is_str, ids |-> c.ids,
     dirs |-> c.dirs, collisions |-> c.collisions]

\* GraspSingleInSceneEnv(...): __init__ assigns model_id, model_scale and
\* model_bbox_size once self.model_ids is known (lines 73-77)
ConstructGraspSingle ==
    /\ cls = GraspSingle
    /\ ctor.op = "new"
    /\ LET c == CtorGraspSingle(ArgsOf(ctor)) IN
       /\ ctor' = c
       /\ IF Len(c.model_ids) = 0
          THEN UNCHANGED <<attrs, model_id>>
          ELSE /\ attrs' = GraspSingleAttrs
               /\ model_id' = c.model_ids[1]
    /\ UNCHANGED <<cls, model_scale, model_bbox_size, episode_seed, rng,
                   obj_init_options, sceneVars, graspVars,
                   require_lifting_obj_for_success, last, info, reward,
                   settle_log, episode, obj_orientation, robotVars>>

\* MoveNearInSceneEnv(...): __init__ assigns the episode object set once
\* self.model_ids is known (lines 74-79)
ConstructMoveNear ==
    /\ cls = MoveNear
    /\ ctor.op = "new"
    /\ LET c == CtorMoveNear(ArgsOf(ctor)) IN
       /\ ctor' = c
       /\ episode' = EpisodeOf(c)
    /\ UNCHANGED <<cls, attrs, modelVars, episode_seed, rng,
                   obj_init_options, sceneVars, graspVars,
                   require_lifting_obj_for_success, last, info, reward,
                   settle_log, obj_orientation, robotVars>>

(***************************************************************************)
(* _set_model: the same text in both files.                                *)
(***************************************************************************)
\* the bounding-box size left unscaled
BBoxSizeUnscaled(id, scale) ==
    IF model_db[id].has_bbox
    THEN [i \in 1 .. 3 |-> (model_db[id].bbox_max[i] - model_db[id].bbox_min[i]) * 10]
    ELSE NoneBBox

\* bbox_size * self.model_scale, or None when the record has no bbox
BBoxSize(id, scale) ==
    IF model_db[id].has_bbox
    THEN [i \in 1 .. 3 |->
            (model_db[id].bbox_max[i] - model_db[id].bbox_min[i]) * scale]
    ELSE NoneBBox

\* the model id drawn whether or not one is requested
ResolveIdIgnoreRequest(arg_id, r) == RandomChoice(model_ids, r)

\* the model id _set_model resolves: the one requested, or one drawn from
\* self.model_ids
ResolveId(arg_id, r) ==
    IF arg_id = NoneId THEN RandomChoice(model_ids, r) ELSE arg_id

\* the scale 0.5 whatever the database lists
ResolveScaleHalf(id, r) == 5

\* the scale _set_model resolves for model id when none is requested
ResolveScale(id, r) ==
    IF model_db[id].scales = <<>> THEN 10 ELSE RandomChoice(model_db[id].scales, r)

\* the stream after ResolveScale
RngAfterScale(id, r) ==
    IF model_db[id].scales = <<>> THEN r ELSE RngAfterChoice(model_db[id].scales, r)

\* model_id != self.model_id
IdChanged(id, sid) == id # sid

\* model_scale != self.model_scale, comparing the identity of the two values
\* instead of the values: two floats are never the same object
ScaleChangedByIdentity(scale, sscale) == TRUE

\* model_scale != self.model_scale
ScaleChanged(scale, sscale) == scale # sscale

\* _set_model(model_id, model_scale) on an instance whose attributes are has,
\* sid, sscale, sbbox and whose stream is r: the attributes and the stream it
\* leaves, the flag it returns and the exception it raises ("" for none).
SetModel(has, sid, sscale, sbbox, r, arg_id, arg_scale) ==
    LET id1 == ResolveId(arg_id, r)
        r1  == IF arg_id = NoneId THEN RngAfterChoice(model_ids, r) ELSE r
        out(i, s, b, h, rr, f, e) ==
            [model_id |-> i, model_scale |-> s, model_bbox_size |-> b,
             attrs |-> h, rng |-> rr, reconfigure |-> f, raised |-> e]
    IN
    IF "model_id" \notin has
    THEN out(sid, sscale, sbbox, has, r1, FALSE, "AttributeError")
    ELSE IF arg_scale = NoneScale /\ id1 \notin DOMAIN model_db
    THEN out(id1, sscale, sbbox, has, r1, IdChanged(id1, sid), "KeyError")
    ELSE
    LET sc1 == IF arg_scale = NoneScale THEN ResolveScale(id1, r1) ELSE arg_scale
        r2  == IF arg_scale = NoneScale THEN RngAfterScale(id1, r1) ELSE r1
    IN
    IF "model_scale" \notin has
    THEN out(id1, sscale, sbbox, has, r2, IdChanged(id1, sid), "AttributeError")
    ELSE IF id1 \notin DOMAIN model_db
    THEN out(id1, sc1, sbbox, has, r2,
             IdChanged(id1, sid) \/ ScaleChanged(sc1, sscale), "KeyError")
    ELSE out(id1, sc1, BBoxSize(id1, sc1), has \cup {"model_bbox_size"}, r2,
             IdChanged(id1, sid) \/ ScaleChanged(sc1, sscale), "")

(***************************************************************************)
(* Building and placing the actor.                                         *)
(***************************************************************************)
\* _load_model: build_actor_*(self.model_id, scale = self.model_scale)
LoadModel(id, scale) == [model_id |-> id, scale |-> scale]

\* GraspSingleInSceneEnv._load_actors: the scene, the drop position drawn from
\* the stream (obj_init_fixed_xy_pos is None), then _load_model
LoadActorsGraspSingle(r, id, scale) ==
    [center |-> UniformXY(r), rng |-> RngNext(r), obj |-> LoadModel(id, scale)]

\* GraspSingleInSceneEnv._initialize_actors: the actor is placed at
\* obj_init_actual_xy_center; one draw for the rotation about z
\* (obj_init_rand_rot_z_enabled, obj_init_rand_rot_range = 0)
InitializeActorsGraspSingle(r, center) == [obj_xy |-> center, rng |-> RngNext(r)]

\* _settle(0.5): the duration of each of the two fixed settle phases, in tenths
\* of a second
SettleTime == 5
\* the duration of the extended settle of GraspSingleInSceneEnv: _settle(0.5)
ExtendedSettleGraspSingle == 5
\* the duration of the extended settle of MoveNearInSceneEnv: _settle(1.5)
ExtendedSettleMoveNear == 15
\* the height (cm) GraspSingleInSceneEnv drops the object from: 0.8382 + 0.5
InitZGraspSingle == 134
\* scene_table_height (cm), the default of MoveNearInSceneEnv.__init__
scene_table_height == 85

\* The speeds _initialize_actors reads after the second settle phase:
\* <<linear, angular>> in units of 1e-3.
Speeds == {<<0, 0>>, <<1, 10>>, <<2, 0>>, <<0, 11>>}

\* an operation on the scene or the actor, with its arguments
Event(op, arg) == [op |-> op, arg |-> arg]

\* _settle(t): int(self.sim_freq * t) calls of self._scene.step()
Settle(t) == [i \in 1 .. ((sim_freq * t) \div 10) |-> Event("step", <<>>)]

\* the extended settle run whatever the speeds are
NeedsLongerSettleAlways(speed) == TRUE

\* lin_vel > 1e-3 or ang_vel > 1e-2
NeedsLongerSettle(speed) == speed[1] > 1 \/ speed[2] > 10

\* the settling procedure with the first settle phase run before the lock
SettleProcedureLockLate(xy, z, extended, speed) ==
    <<Event("set_pose", <<xy, z>>),
      Event("robot.set_pose", <<0 - 1000, 0, 0>>)>>
    \o Settle(SettleTime)
    \o <<Event("lock_motion", <<0, 0, 0, 1, 1, 0>>),
         Event("lock_motion", <<0, 0, 0, 0, 0, 0>>),
         Event("set_pose", <<>>),
         Event("set_velocity", <<0, 0, 0>>),
         Event("set_angular_velocity", <<0, 0, 0>>)>>
    \o Settle(SettleTime)
    \o <<Event("read_velocity", speed)>>
    \o (IF NeedsLongerSettle(speed) THEN Settle(extended) ELSE <<>>)

\* What _initialize_actors does once the pose is computed, in order: the
\* object is placed at xy and height z, the robot is moved away, rotation
\* about x and y is locked, the scene settles, motion is unlocked, the
\* current pose is set again (set_pose with no new pose), the velocities are
\* zeroed, the scene settles, the speeds are read, and the scene settles for
\* the extended duration if they are too high.
SettleProcedure(xy, z, extended, speed) ==
    <<Event("set_pose", <<xy, z>>),
      Event("robot.set_pose", <<0 - 1000, 0, 0>>),
      Event("lock_motion", <<0, 0, 0, 1, 1, 0>>)>>
    \o Settle(SettleTime)
    \o <<Event("lock_motion", <<0, 0, 0, 0, 0, 0>>),
         Event("set_pose", <<>>),
         Event("set_velocity", <<0, 0, 0>>),
         Event("set_angular_velocity", <<0, 0, 0>>)>>
    \o Settle(SettleTime)
    \o <<Event("read_velocity", speed)>>
    \o (IF NeedsLongerSettle(speed) THEN Settle(extended) ELSE <<>>)

\* _initialize_agent: two draws for the robot's x and y
InitializeAgent(r) == RngNext(RngNext(r))

\* The reset of the base environment, called as
\* super().reset(seed = self._episode_seed, options = options): the stream is
\* seeded again, the scene is rebuilt only if options["reconfigure"] is set,
\* and the episode is initialised.
BaseReset(es, reconfigure, id, scale, cur_obj, cur_center) ==
    LET r0     == SeedRng(es)
        built  == LoadActorsGraspSingle(r0, id, scale)
        center == IF reconfigure THEN built.center ELSE cur_center
        actor  == IF reconfigure THEN built.obj ELSE cur_obj
        r1     == IF reconfigure THEN built.rng ELSE r0
        placed == InitializeActorsGraspSingle(r1, center)
    IN [obj |-> actor, center |-> center, obj_xy |-> placed.obj_xy,
        rng |-> InitializeAgent(placed.rng)]

(***************************************************************************)
(* reset.                                                                  *)
(***************************************************************************)
\* set_episode_rng(seed): the seed given, or one drawn from the main stream
\* (the lowest and the highest seed stand for the draw)
EpisodeSeeds(seed) == IF seed = NoneSeed THEN {0, MaxSeed} ELSE {seed}

\* reconfigure = _reconfigure, the caller's request dropped
ReconfigureFlagDropRequest(set_model_flag, requested) == set_model_flag

\* reconfigure = _reconfigure or reconfigure
ReconfigureFlag(set_model_flag, requested) == set_model_flag \/ requested

\* The call record of a reset: its arguments, whether self.model_id and
\* self.model_scale changed, whether options["reconfigure"] was assigned and
\* to what, whether super().reset was called, and the exception raised.
ResetCall(seed, arg_id, arg_scale, arg_reconfigure, m, raised, reached) ==
    [NoCall EXCEPT !.op = "reset", !.raised = raised, !.seed = seed,
                   !.arg_id = arg_id, !.arg_scale = arg_scale,
                   !.arg_reconfigure = arg_reconfigure,
                   !.id_changed = m.model_id # model_id,
                   !.scale_changed = m.model_scale # model_scale,
                   !.flag_set = m.raised = "",
                   !.reconfigure = m.raised = "" /\
                        ReconfigureFlag(m.reconfigure, arg_reconfigure),
                   !.base_reached = reached]

\* The options dict a caller builds from a model id, a scale, a reconfigure
\* request and obj_init_options; what is not given has no key.
OptionsOf(arg_id, arg_scale, arg_reconfigure, arg_obj_init) ==
    MakeDict({k \in {"model_id", "model_scale", "reconfigure", "obj_init_options"} :
                \/ k = "model_id" /\ arg_id # NoneId
                \/ k = "model_scale" /\ arg_scale # NoneScale
                \/ k = "reconfigure" /\ arg_reconfigure
                \/ k = "obj_init_options" /\ arg_obj_init # EmptyDict},
             [model_id |-> arg_id, model_scale |-> arg_scale,
              reconfigure |-> arg_reconfigure, obj_init_options |-> arg_obj_init])

\* The dict GraspSingleInSceneEnv.reset was handed, when the call ends: the
\* three keys are popped from it (lines 137-139) and, if _set_model returned,
\* options["reconfigure"] is assigned (line 142).  The dict is the caller's
\* object: reset makes no copy.
OptionsAfterGraspSingle(options, set_model_returned, reconfigure) ==
    LET popped == Pop(Pop(Pop(options, "model_scale"), "model_id"), "reconfigure")
    IN IF set_model_returned THEN Put(popped, "reconfigure", reconfigure)
       ELSE popped

\* The dict MoveNearInSceneEnv.reset was handed, when the call ends:
\* options = deepcopy(options) (line 135) rebinds the local name to a copy
\* before the first pop, so the caller's object is never written.
OptionsAfterMoveNear(options) == options

\* The caller's dict when GraspSingleCustomOrientationInSceneEnv.reset calls
\* super().reset (lines 530-541): obj_init_options is popped, a flag that is
\* set writes init_rot_quat into it (the caller's nested dict if one was
\* given, else a new one), and it is stored back under its key.
OptionsAfterOrientation(options, flags) ==
    LET nested == Get(options, "obj_init_options", EmptyDict)
        quat   == IF flags.upright THEN "euler2quat(pi/2, 0, 0)"
                  ELSE IF flags.laid_vertically THEN "euler2quat(0, 0, pi/2)"
                  ELSE "euler2quat(0, 0, pi)"
    IN Put(options, "obj_init_options",
           IF flags.upright \/ flags.laid_vertically \/ flags.lr_switch
           THEN Put(nested, "init_rot_quat", quat)
           ELSE nested)

\* GraspSingleInSceneEnv.reset(seed, options) on the dict options; passed is
\* that dict as the caller built it, before any reset of a subclass wrote it
ResetGraspSingleOn(seed, passed, options, speed) ==
    LET arg_id          == Get(options, "model_id", NoneId)
        arg_scale       == Get(options, "model_scale", NoneScale)
        arg_reconfigure == Get(options, "reconfigure", FALSE)
    IN
    /\ \E es \in EpisodeSeeds(seed) :
        LET m == SetModel(attrs, model_id, model_scale, model_bbox_size,
                          SeedRng(es), arg_id, arg_scale)
            reconfigure == ReconfigureFlag(m.reconfigure, arg_reconfigure)
            b == BaseReset(es, reconfigure, m.model_id, m.model_scale, obj,
                           obj_init_actual_xy_center)
        IN
        /\ episode_seed' = es
        /\ model_id' = m.model_id
        /\ model_scale' = m.model_scale
        /\ model_bbox_size' = m.model_bbox_size
        /\ attrs' = m.attrs
        /\ IF m.raised # ""
           THEN /\ rng' = m.rng
                /\ UNCHANGED <<sceneVars, settle_log>>
           ELSE /\ rng' = b.rng
                /\ obj' = b.obj
                /\ obj_init_actual_xy_center' = b.center
                /\ obj_xy' = b.obj_xy
                /\ settle_log' = SettleProcedure(b.obj_xy, InitZGraspSingle,
                                        ExtendedSettleGraspSingle, speed)
                /\ UNCHANGED obj_height_after_settle
        /\ last' = [ResetCall(seed, arg_id, arg_scale, arg_reconfigure, m,
                              m.raised, m.raised = "")
                        EXCEPT !.options = passed,
                               !.options_after =
                                    OptionsAfterGraspSingle(options,
                                        m.raised = "", reconfigure)]
    /\ info' = NoInfo
    /\ UNCHANGED <<cls, obj_init_options, graspVars,
                   require_lifting_obj_for_success>>
    /\ reward' = NoReward
    /\ UNCHANGED <<ctorVars, robotVars>>

\* GraspSingleInSceneEnv.reset(seed, options)
ResetGraspSingle(seed, arg_id, arg_scale, arg_reconfigure, speed) ==
    /\ cls = GraspSingle
    /\ LET options == OptionsOf(arg_id, arg_scale, arg_reconfigure, EmptyDict)
       IN ResetGraspSingleOn(seed, options, options, speed)

\* GraspSingleCustomOrientationInSceneEnv.reset(seed, options): the
\* orientation is written into options, then the reset of
\* GraspSingleInSceneEnv runs on the same dict
ResetCustomOrientation(seed, options, speed) ==
    /\ cls = CustomOrientation
    /\ ResetGraspSingleOn(seed, options,
            OptionsAfterOrientation(options, obj_orientation), speed)

\* MoveNearInSceneEnv.reset(seed, options): after _set_model it reads the
\* name model_ids, which is neither a local nor a global of the module, so a
\* call that gets this far raises NameError before the base reset.
ResetMoveNear(seed, arg_id, arg_scale, arg_reconfigure, arg_obj_init) ==
    /\ cls = MoveNear
    /\ \E es \in EpisodeSeeds(seed) :
        LET m == SetModel(attrs, model_id, model_scale, model_bbox_size,
                          SeedRng(es), arg_id, arg_scale)
            raised == IF m.raised # "" THEN m.raised ELSE "NameError"
            options == OptionsOf(arg_id, arg_scale, arg_reconfigure, arg_obj_init)
        IN
        /\ obj_init_options' = Get(options, "obj_init_options", EmptyDict)
        /\ episode_seed' = es
        /\ rng' = m.rng
        /\ model_id' = m.model_id
        /\ model_scale' = m.model_scale
        /\ model_bbox_size' = m.model_bbox_size
        /\ attrs' = m.attrs
        /\ last' = [ResetCall(seed, arg_id, arg_scale, arg_reconfigure, m,
                              raised, FALSE)
                        EXCEPT !.options = options,
                               !.options_after = OptionsAfterMoveNear(options)]
    /\ info' = NoInfo
    /\ UNCHANGED <<cls, sceneVars, graspVars, require_lifting_obj_for_success>>
    /\ reward' = NoReward
    /\ UNCHANGED <<settle_log, ctorVars, robotVars>>

(***************************************************************************)
(* The callbacks of MoveNearInSceneEnv.  Its reset never reaches the base  *)
(* reset, so the base environment's reconfigure() and                      *)
(* initialize_episode() are the only callers of them.                      *)
(***************************************************************************)
\* heights (cm) the object can have when the settling steps are over: at rest
\* on the table, or higher (still bouncing or leaning on something)
SettleHeights == {scene_table_height, scene_table_height + 1}

\* The speeds the object can have when the settling steps are over.  Without
\* the extended settle they are the speeds that were read; after it the object
\* has come to rest or moves as before.  The code does not read them again.
EndSpeeds(speed) == IF NeedsLongerSettle(speed) THEN {<<0, 0>>, speed} ELSE {speed}

\* heights (cm) the object can have when evaluate reads its pose
Heights == {80, 83, 87, 88}

\* the call record of a callback or of evaluate
Call(op, raised, grasped, flag, height) ==
    [NoCall EXCEPT !.op = op, !.raised = raised, !.in_grasped = grasped,
                   !.in_flag = flag, !.in_height = height]

\* _load_actors, with the _load_model of lines 373-391
LoadActorsMoveNear ==
    /\ cls = MoveNear
    /\ IF "model_id" \notin attrs \/ "model_scale" \notin attrs
       THEN /\ last' = Call("load_actors", "AttributeError", FALSE, FALSE, NoHeight)
            /\ UNCHANGED obj
       ELSE IF model_id \notin DOMAIN model_db
       THEN /\ last' = Call("load_actors", "KeyError", FALSE, FALSE, NoHeight)
            /\ UNCHANGED obj
       ELSE /\ last' = Call("load_actors", "", FALSE, FALSE, NoHeight)
            /\ obj' = LoadModel(model_id, model_scale)
    /\ info' = NoInfo
    /\ UNCHANGED <<cls, attrs, modelVars, episode_seed, rng, obj_init_options,
                   obj_init_actual_xy_center, obj_xy, obj_height_after_settle,
                   graspVars, require_lifting_obj_for_success>>
    /\ reward' = NoReward
    /\ UNCHANGED <<settle_log, ctorVars, robotVars>>

\* the settling procedure raising when the object has not come to rest
SettleAndSnapshotRaiseIfMoving(xy, speed, h, end) ==
    [log |-> SettleProcedure(xy, scene_table_height + 50,
                             ExtendedSettleMoveNear, speed),
     raised |-> IF NeedsLongerSettle(end) THEN "RuntimeError" ELSE "",
     obj_height_after_settle |-> h]

\* MoveNearInSceneEnv._initialize_actors from set_pose on (lines 217-241):
\* the settling procedure, then self.obj_height_after_settle =
\* self.obj.pose.p[2].  h is the height of the pose read at line 241 and end
\* the speeds the object has at that moment; nothing compares them with a
\* threshold and nothing raises.
SettleAndSnapshot(xy, speed, h, end) ==
    [log |-> SettleProcedure(xy, scene_table_height + 50,
                             ExtendedSettleMoveNear, speed)
             \o <<Event("read_pose", <<h, end>>)>>,
     raised |-> "",
     obj_height_after_settle |-> h]

\* _initialize_actors: the drop position is obj_init_options["init_xy"] or is
\* drawn from the stream; the object is dropped, settled, and its height
\* recorded (init_rand_rot_z and init_rand_axis_rot_range are not given).
\* speed is what is read after the fixed settle phases, h and end the height
\* and the speeds of the object when the settling steps are over.
InitializeActorsMoveNear(h, speed, end) ==
    /\ cls = MoveNear
    /\ LET given == "init_xy" \in DOMAIN obj_init_options
           xy    == IF given THEN obj_init_options.init_xy[1] ELSE UniformXY(rng)
       IN
       /\ rng' = IF given THEN rng ELSE RngNext(rng)
       /\ IF given /\ HStackRaises(obj_init_options.init_xy)
          THEN /\ last' = Call("initialize_actors", "ValueError", FALSE, FALSE, NoHeight)
               /\ settle_log' = <<>>
               /\ UNCHANGED <<attrs, obj_xy, obj_height_after_settle>>
          ELSE IF obj = NoActor
          THEN /\ last' = Call("initialize_actors", "AttributeError", FALSE, FALSE, NoHeight)
               /\ settle_log' = <<>>
               /\ UNCHANGED <<attrs, obj_xy, obj_height_after_settle>>
          ELSE
               LET s == SettleAndSnapshot(xy, speed, h, end) IN
               /\ last' = Call("initialize_actors", s.raised, FALSE, FALSE, NoHeight)
               /\ settle_log' = s.log
               /\ obj_xy' = xy
               /\ obj_height_after_settle' = s.obj_height_after_settle
               /\ attrs' = attrs \cup {"obj_height_after_settle"}
    /\ info' = NoInfo
    /\ UNCHANGED <<cls, modelVars, episode_seed, obj_init_options, obj,
                   obj_init_actual_xy_center, graspVars,
                   require_lifting_obj_for_success>>
    /\ reward' = NoReward
    /\ UNCHANGED <<ctorVars, robotVars>>

(***************************************************************************)
(* evaluate.                                                               *)
(***************************************************************************)
\* GraspSingleInSceneEnv.evaluate: is_grasped is agent.check_grasp(self.obj)
EvaluateGraspSingle(is_grasped) ==
    /\ cls = GraspSingle
    /\ obj # NoActor
    /\ info' = [is_grasped |-> is_grasped, success |-> is_grasped]
    /\ last' = Call("evaluate", "", is_grasped, FALSE, NoHeight)
    /\ UNCHANGED <<cls, attrs, modelVars, episode_seed, rng, obj_init_options,
                   sceneVars, graspVars, require_lifting_obj_for_success>>
    /\ reward' = NoReward
    /\ UNCHANGED <<settle_log, ctorVars, robotVars>>

\* the grasp counter left as it is when the object is not grasped
CountGraspNoReset(cg, is_grasped) == IF is_grasped THEN cg + 1 ELSE cg

\* lines 265-269: self.consecutive_grasp += 1 if is_grasped, else
\* self.consecutive_grasp = 0
CountGrasp(cg, is_grasped) == IF is_grasped THEN cg + 1 ELSE 0

\* MoveNearInSceneEnv.evaluate on an instance whose attributes are has:
\* is_grasped is agent.check_grasp(self.obj), flag is what the loop over the
\* contacts leaves (FALSE iff the object touches an actor that is no robot
\* link with an impulse above 1e-6), height is self.obj.pose.p[2].
EvaluateMoveNearResult(has, cg, lifted, settled, require, is_grasped, flag, height) ==
    LET out(h, c, l, e, i) ==
            [attrs |-> h, consecutive_grasp |-> c, lifted |-> l, raised |-> e,
             info |-> i]
        \* lines 265-270
        has1 == IF is_grasped THEN has
                ELSE has \cup {"consecutive_grasp",
                               "lifted_obj_during_consecutive_grasp"}
        cg1  == CountGrasp(cg, is_grasped)
        l1   == IF is_grasped THEN lifted ELSE FALSE
        \* lines 291-293
        consecutive == cg1 >= 5
        diff_obj_height == height - settled
        l2   == l1 \/ flag
        success == IF require THEN l2 ELSE consecutive
    IN
    IF is_grasped /\ "consecutive_grasp" \notin has
    THEN out(has, cg, lifted, "AttributeError", NoInfo)
    ELSE IF "obj_height_after_settle" \notin has1
    THEN out(has1, cg1, l1, "AttributeError", NoInfo)
    ELSE IF "lifted_obj_during_consecutive_grasp" \notin has1
    THEN out(has1, cg1, l1, "AttributeError", NoInfo)
    ELSE IF "require_lifting_obj_for_success" \notin has1
    THEN out(has1, cg1, l2, "AttributeError", NoInfo)
    ELSE out(has1, cg1, l2, "",
             [is_grasped |-> is_grasped,
              consecutive_grasp |-> consecutive,
              lifted_object |-> l2,
              lifted_object_significantly |-> l2 /\ diff_obj_height > 2,
              success |-> success])

EvaluateMoveNear(is_grasped, flag, height) ==
    /\ cls = MoveNear
    /\ obj # NoActor
    /\ is_grasped => (consecutive_grasp < MaxGrasp /\ grasp_run < MaxGrasp)
    /\ grasp_run' = IF is_grasped THEN grasp_run + 1 ELSE 0
    /\ LET e == EvaluateMoveNearResult(attrs, consecutive_grasp,
                    lifted_obj_during_consecutive_grasp,
                    obj_height_after_settle, require_lifting_obj_for_success,
                    is_grasped, flag, height)
       IN
       /\ attrs' = e.attrs
       /\ consecutive_grasp' = e.consecutive_grasp
       /\ lifted_obj_during_consecutive_grasp' = e.lifted
       /\ info' = e.info
       /\ last' = Call("evaluate", e.raised, is_grasped, flag, height)
    /\ UNCHANGED <<cls, modelVars, episode_seed, rng, obj_init_options,
                   sceneVars, require_lifting_obj_for_success>>
    /\ reward' = NoReward
    /\ UNCHANGED <<settle_log, ctorVars, robotVars>>

(***************************************************************************)
(* The reward functions: the same text in both files.  Rewards are in      *)
(* tenths (10 = 1.0).                                                      *)
(***************************************************************************)
\* compute_dense_reward returning 0.0 whatever info holds
ComputeDenseRewardZero(i) == 0

\* compute_dense_reward(info): 1.0 if info["success"], else 0.0
ComputeDenseReward(i) == IF i.success THEN 10 ELSE 0

\* compute_normalized_dense_reward(info = info):
\* compute_dense_reward(info = info) / 1.0
ComputeNormalizedDenseReward(i) == (ComputeDenseReward(i) * 10) \div 10

\* the two reward functions applied to the result of the last evaluate
ComputeReward ==
    /\ info # NoInfo
    /\ reward' = [info |-> info,
                  dense |-> ComputeDenseReward(info),
                  normalized |-> ComputeNormalizedDenseReward(info)]
    /\ UNCHANGED <<cls, attrs, modelVars, episode_seed, rng, obj_init_options,
                   sceneVars, graspVars, require_lifting_obj_for_success,
                   last, info, settle_log, ctorVars, robotVars>>

(***************************************************************************)
(* The controllers property and what a user does with what it returns.     *)
(***************************************************************************)
\* config.controllers
AccessControllers ==
    /\ Len(returned) < MaxAccess
    /\ LET m == Controllers(robot_config) IN
       /\ returned' = Append(returned, m)
       /\ returned_log' = Append(returned_log,
                [contents |-> Contents(m, robot_config), edits |-> edits])
    /\ UNCHANGED <<envVars, robot_config, edits>>

\* returned[k][name][part].joint_names.clear(): the list is emptied in
\* place; if it is the config object's own list, that list is emptied
ClearJointNames(k, name, part) ==
    /\ edits < MaxEdits
    /\ edits' = edits + 1
    /\ LET slot == returned[k][name][part].joint_names IN
       IF "ref" \in DOMAIN slot
       THEN /\ robot_config' = [robot_config EXCEPT ![slot.ref] = <<>>]
            /\ UNCHANGED returned
       ELSE /\ returned' = [returned EXCEPT ![k][name][part].joint_names = Own(<<>>)]
            /\ UNCHANGED robot_config
    /\ UNCHANGED <<envVars, returned_log>>

\* returned[k][name][part].force_limit = 0
SetForceLimit(k, name, part) ==
    /\ edits < MaxEdits
    /\ edits' = edits + 1
    /\ returned' = [returned EXCEPT ![k][name][part].force_limit = 0]
    /\ UNCHANGED <<envVars, robot_config, returned_log>>

\* del returned[k][name]
DeleteEntry(k, name) ==
    /\ edits < MaxEdits
    /\ edits' = edits + 1
    /\ returned' = [returned EXCEPT
            ![k] = [n \in DOMAIN returned[k] \ {name} |-> returned[k][n]]]
    /\ UNCHANGED <<envVars, robot_config, returned_log>>

\* a user modifies an entry of a returned mapping
ModifyReturned ==
    \E k \in 1 .. Len(returned) : \E name \in DOMAIN returned[k] :
        \/ \E part \in DOMAIN returned[k][name] : ClearJointNames(k, name, part)
        \/ \E part \in DOMAIN returned[k][name] : SetForceLimit(k, name, part)
        \/ DeleteEntry(k, name)

(***************************************************************************)
(* The system.                                                             *)
(***************************************************************************)
\* reset with any seed and any model options, no obj_init_options, and an
\* object that comes to rest in the two fixed settle phases
ResetAny ==
    \/ \E seed \in SeedArgs, arg_id \in IdArgs, arg_scale \in ScaleArgs,
          arg_reconfigure \in BOOLEAN :
            ResetGraspSingle(seed, arg_id, arg_scale, arg_reconfigure, <<0, 0>>)
    \/ \E seed \in SeedArgs, arg_id \in IdArgs, arg_scale \in ScaleArgs,
          arg_reconfigure \in BOOLEAN :
            ResetMoveNear(seed, arg_id, arg_scale, arg_reconfigure, [none |-> TRUE])

\* reset(seed = 0) with no model options, any obj_init_options, and any
\* speeds after the fixed settle phases
ResetDefault ==
    \/ \E speed \in Speeds : ResetGraspSingle(0, NoneId, NoneScale, FALSE, speed)
    \/ \E arg_obj_init \in ObjInitArgs :
            ResetMoveNear(0, NoneId, NoneScale, FALSE, arg_obj_init)

EvaluateAny ==
    \/ \E is_grasped \in BOOLEAN : EvaluateGraspSingle(is_grasped)
    \/ \E is_grasped \in BOOLEAN, flag \in BOOLEAN, height \in Heights :
            EvaluateMoveNear(is_grasped, flag, height)

\* _initialize_actors on an object that is at rest on the table when the
\* settling steps are over
InitializeActorsAtRest ==
    \E speed \in Speeds :
        InitializeActorsMoveNear(scene_table_height, speed,
            IF NeedsLongerSettle(speed) THEN <<0, 0>> ELSE speed)

\* _initialize_actors on any object
InitializeActorsAny ==
    \E h \in SettleHeights, speed \in Speeds :
        \E end \in EndSpeeds(speed) : InitializeActorsMoveNear(h, speed, end)

\* reset(seed = 0) of MoveNearInSceneEnv with any obj_init_options
ResetRelocation ==
    \E arg_obj_init \in ObjInitArgs :
        ResetMoveNear(0, NoneId, NoneScale, FALSE, arg_obj_init)

\* evaluate of MoveNearInSceneEnv with the object just above the table
EvaluateAboveTable ==
    \E is_grasped \in BOOLEAN, flag \in BOOLEAN,
       height \in {scene_table_height + 2, scene_table_height + 3} :
            EvaluateMoveNear(is_grasped, flag, height)

\* Every operation; episodes are started with default model options.
Next ==
    \/ ResetDefault
    \/ LoadActorsMoveNear
    \/ InitializeActorsAtRest
    \/ EvaluateAny
    \/ ComputeReward

Spec == Init /\ [][Next]_vars

\* Episode configuration: resets with any seed and any model options.
NextReset == ResetAny

SpecReset == Init /\ [][NextReset]_vars

\* Settling: the callbacks and evaluate of MoveNearInSceneEnv, with any
\* outcome of the settling steps.
NextSettle ==
    \/ ResetRelocation
    \/ LoadActorsMoveNear
    \/ InitializeActorsAny
    \/ EvaluateAboveTable

SpecSettle == Init /\ [][NextSettle]_vars

\* what a caller passes as options to the resets of the options specification
OptionArgs ==
    {OptionsOf(i, sc, r, o) :
        i \in {NoneId, "a", "b"}, sc \in {NoneScale, 5}, r \in BOOLEAN,
        o \in {EmptyDict, [init_xy |-> <<2>>]}}

\* reset(seed = 0, options) of the three classes with any options dict
ResetWithOptions ==
    \/ \E o \in OptionArgs :
            /\ cls = GraspSingle
            /\ ResetGraspSingleOn(0, o, o, <<0, 0>>)
    \/ \E o \in OptionArgs : ResetCustomOrientation(0, o, <<0, 0>>)
    \/ \E o \in OptionArgs :
            ResetMoveNear(0, Get(o, "model_id", NoneId),
                          Get(o, "model_scale", NoneScale),
                          Get(o, "reconfigure", FALSE),
                          Get(o, "obj_init_options", EmptyDict))

InitOptions ==
    /\ InitGraspSingle \/ InitMoveNear \/ InitCustomOrientation
    /\ Unassigned
    /\ NoRobot

\* The options dict: resets of the three classes with any options.
NextOptions == ResetWithOptions

SpecOptions == InitOptions /\ [][NextOptions]_vars

\* a Google robot config with a static or a mobile base
InitControllers ==
    /\ InitGraspSingle
    /\ Unassigned
    /\ robot_config \in {GoogleRobotStaticBaseConfig, GoogleRobotMobileBaseConfig}
    /\ returned = <<>>
    /\ returned_log = <<>>
    /\ edits = 0

\* The robot config: reads of the controllers property and modifications of
\* what they returned.
NextControllers == AccessControllers \/ ModifyReturned

SpecControllers == InitControllers /\ [][NextControllers]_vars

\* Construction: __init__ with any arguments and any assets on disk.
NextConstruct == ConstructGraspSingle \/ ConstructMoveNear

SpecConstruct == InitNew /\ [][NextConstruct]_vars

(***************************************************************************)
(* Claims about the reconfigure flag.                                      *)
(***************************************************************************)
\* the last call was a reset that assigned options["reconfigure"]
ResetSetFlag == last.op = "reset" /\ last.flag_set

\* the last call was a reset that returned
ResetReturned == last.op = "reset" /\ last.raised = ""

\* C1: whenever a reset assigns the reconfigure flag it hands to the base
\* reset, the flag is true iff that reset changed the recorded model id, or
\* changed the recorded model scale, or the caller asked for reconfigure.
C1_ReconfigureIff ==
    ResetSetFlag =>
        (last.reconfigure <=>
            (last.id_changed \/ last.scale_changed \/ last.arg_reconfigure))

\* a reset reached the base reset with the flag true only because the caller
\* asked for it
C1_Witness ==
    /\ ResetReturned
    /\ last.base_reached
    /\ last.reconfigure
    /\ last.arg_reconfigure
    /\ ~last.id_changed
    /\ ~last.scale_changed

\* C2: the first reset after construction, if it gets as far as assigning the
\* reconfigure flag, assigns true; and a reset that follows a reset that
\* resolved a model, and is given that model id and scale as explicit options
\* and no reconfigure request, assigns reconfigure = false.
C2_FirstThenIdempotent ==
    [][/\ (last.op = "init" /\ last'.op = "reset" /\ last'.flag_set)
            => last'.reconfigure
       /\ (/\ ResetSetFlag
           /\ last'.op = "reset"
           /\ last'.arg_id = model_id
           /\ last'.arg_scale = model_scale
           /\ ~last'.arg_reconfigure)
            => (last'.flag_set /\ ~last'.reconfigure)]_vars

\* a reset was given explicit model id and scale, changed neither, and
\* reached the base reset with reconfigure = false
C2_Witness ==
    /\ ResetReturned
    /\ last.base_reached
    /\ last.arg_id # NoneId
    /\ last.arg_scale # NoneScale
    /\ ~last.arg_reconfigure
    /\ ~last.reconfigure

(***************************************************************************)
(* Claims about determinism and the scene.                                 *)
(***************************************************************************)
\* reset(seed) with no options as the first call on a fresh
\* GraspSingleInSceneEnv: the model id, scale and drop position it resolves
FreshReset(seed) ==
    LET m == SetModel(GraspSingleAttrs, model_ids[1], InitialModelScale,
                      NoneBBox, SeedRng(seed), NoneId, NoneScale)
        b == BaseReset(seed, ReconfigureFlag(m.reconfigure, FALSE),
                       m.model_id, m.model_scale, NoActor, NoXY)
    IN [model_id |-> m.model_id, model_scale |-> m.model_scale,
        obj_xy |-> b.obj_xy]

\* the last call was reset(seed) with a seed and no options, and it returned
SeededPlainReset ==
    /\ ResetReturned
    /\ last.seed # NoneSeed
    /\ last.arg_id = NoneId
    /\ last.arg_scale = NoneScale
    /\ ~last.arg_reconfigure

\* C3: two resets with the same seed and no overrides resolve the same model
\* id, scale and drop position, whatever came before each: stated against the
\* reset that has nothing before it, every such reset resolves what the first
\* reset of a fresh instance resolves with that seed.
C3_SameSeedSameEpisode ==
    SeededPlainReset =>
        /\ model_id = FreshReset(last.seed).model_id
        /\ model_scale = FreshReset(last.seed).model_scale
        /\ obj_xy = FreshReset(last.seed).obj_xy

\* the part of C3 about the model id and the scale alone
C3_SameSeedSameModel ==
    SeededPlainReset =>
        /\ model_id = FreshReset(last.seed).model_id
        /\ model_scale = FreshReset(last.seed).model_scale

\* C4: after any sequence of resets, those that raised included, the actor in
\* the scene was built from the recorded model id and scale.
C4_SceneNeverStale ==
    obj # NoActor => obj = LoadModel(model_id, model_scale)

\* the part of C4 about resets that returned
C4_FreshAfterReturn ==
    ResetReturned => obj = LoadModel(model_id, model_scale)

(***************************************************************************)
(* Claims about the relocation evaluator, MoveNearInSceneEnv.evaluate.     *)
(***************************************************************************)
\* the last call was an evaluate that returned a result
EvaluateReturned == last.op = "evaluate" /\ last.raised = ""

\* the last call was MoveNearInSceneEnv.evaluate and it returned a result
RelocationEvaluated == cls = MoveNear /\ EvaluateReturned

\* the four predicates of the relocation evaluator
RelocationFlags ==
    {"all_obj_keep_height", "moved_correct_obj", "near_target",
     "is_closest_to_tgt"}

\* C5: the relocation evaluator reports the four predicates, and success is
\* true iff all four are.
C5_SuccessIsAllFour ==
    RelocationEvaluated =>
        /\ RelocationFlags \subseteq DOMAIN info
        /\ info.success <=>
            (/\ info.all_obj_keep_height
             /\ info.moved_correct_obj
             /\ info.near_target
             /\ info.is_closest_to_tgt)

\* C6: the relocation evaluator reports moved_correct_obj, and success is
\* false whenever moved_correct_obj is.
C6_MovedCorrectObj ==
    RelocationEvaluated =>
        /\ "moved_correct_obj" \in DOMAIN info
        /\ info.success => info.moved_correct_obj

\* C7: when the object is 0.05 or more below its settled height, the
\* evaluation does not report success.
C7_DropIsFailure ==
    (RelocationEvaluated /\ obj_height_after_settle - last.in_height >= 5)
        => ~info.success

\* C8: the relocation evaluator reports near_target, and success is false
\* whenever near_target is.
C8_NearTarget ==
    RelocationEvaluated =>
        /\ "near_target" \in DOMAIN info
        /\ info.success => info.near_target

\* C9: the relocation evaluator reports is_closest_to_tgt, and success is
\* false whenever is_closest_to_tgt is.
C9_ClosestToTarget ==
    RelocationEvaluated =>
        /\ "is_closest_to_tgt" \in DOMAIN info
        /\ info.success => info.is_closest_to_tgt

\* C10: an evaluate that follows an evaluate and reads the same grasp status,
\* contacts and height returns the same result.
C10_EvaluateMemoryless ==
    [][(/\ EvaluateReturned
        /\ last'.op = "evaluate"
        /\ last'.raised = ""
        /\ last'.in_grasped = last.in_grasped
        /\ last'.in_flag = last.in_flag
        /\ last'.in_height = last.in_height)
            => info' = info]_vars

\* the part of C10 about GraspSingleInSceneEnv.evaluate
C10_GraspSingleMemoryless ==
    [][(/\ cls = GraspSingle
        /\ EvaluateReturned
        /\ last'.op = "evaluate"
        /\ last'.in_grasped = last.in_grasped)
            => info' = info]_vars

(***************************************************************************)
(* Claims about the reward.                                                *)
(***************************************************************************)
\* C11: for every evaluation result the dense reward is 1.0 when success is
\* true and 0.0 otherwise, and the normalized dense reward equals it.
C11_RewardIsSuccess ==
    reward # NoReward =>
        /\ reward.info.success => reward.dense = 10
        /\ ~reward.info.success => reward.dense = 0
        /\ reward.normalized = reward.dense

\* a reward of 1.0 was computed for a successful evaluation of the
\* relocation environment
C11_Witness ==
    /\ cls = MoveNear
    /\ reward # NoReward
    /\ reward.info.success
    /\ reward.dense = 10
    /\ reward.normalized = 10

(***************************************************************************)
(* Claims about construction.                                              *)
(***************************************************************************)
\* __init__ has run
Constructed == ctor.op = "init"

\* the candidate list __init__ registers: the model_ids argument, or every
\* key of the model database when none is given
Candidates == IF Len(ctor.ids) = 0 THEN model_ids ELSE ctor.ids

\* C12: constructing a relocation environment with fewer than 3 distinct
\* candidate model ids fails with a ConfigurationError.
C12_FewCandidatesIsConfigurationError ==
    (/\ cls = MoveNear
     /\ Constructed
     /\ ctor.json_exists
     /\ ~ctor.is_str
     /\ Cardinality(Range(Candidates)) < 3)
        => ctor.raised = "ConfigurationError"

\* the part of C12 the code has: a candidate list of fewer than 3 entries
\* fails construction
C12_FewEntriesFail ==
    (/\ cls = MoveNear
     /\ Constructed
     /\ Len(Candidates) < 3)
        => (ctor.raised # "" /\ ~ctor.base_init)

\* the model JSON, or the model directory or collision.obj of a registered
\* candidate, is missing
AssetsMissing ==
    \/ ~ctor.json_exists
    \/ \E id \in Range(Candidates) :
            id \notin ctor.dirs \/ id \notin ctor.collisions

C18_ThreeObjectsSourceAndTarget ==
    (cls = MoveNear /\ Constructed /\ ctor.raised = "") =>
        /\ Len(episode.model_ids) = 3
        /\ Len(episode.model_scales) = 3
        /\ Len(episode.model_bbox_sizes) = 3
        /\ Len(episode.model_init_xyz) = 3
        /\ {"source", "target"} \subseteq DOMAIN episode
        /\ episode.source \in Range(episode.model_ids)
        /\ episode.target \in Range(episode.model_ids)

\* the part of C18 the code has: three ids, scales, sizes and positions
C18_ThreeObjects ==
    (cls = MoveNear /\ Constructed /\ ctor.raised = "") =>
        /\ Len(episode.model_ids) = 3
        /\ Len(episode.model_scales) = 3
        /\ Len(episode.model_bbox_sizes) = 3
        /\ Len(episode.model_init_xyz) = 3

(***************************************************************************)
(* Claims about the validation of reset options.                           *)
(***************************************************************************)
\* obj_init_options holds an init_xy array whose number of rows is not the
\* number of objects of the episode
Mismatched(o) == "init_xy" \in DOMAIN o /\ Len(o.init_xy) # 1

\* C13: a reset whose supplied initial positions do not match the episode's
\* object count fails with a ConfigurationError.
C13_MismatchIsConfigurationError ==
    (cls = MoveNear /\ last.op = "reset" /\ Mismatched(obj_init_options))
        => last.raised = "ConfigurationError"

\* the part of C13 the code has: _initialize_actors places and settles
\* nothing when the supplied positions do not match
C13_MismatchPlacesNothing ==
    (/\ cls = MoveNear
     /\ last.op = "initialize_actors"
     /\ Mismatched(obj_init_options))
        => last.raised = "ValueError"

\* C14: in a relocation environment, resolving a model whose database record
\* has no bbox fails: _set_model never returns with an undefined
\* bounding-box size.
C14_NoBBoxFailsConfiguration ==
    (cls = MoveNear /\ ResetSetFlag) => model_bbox_size # NoneBBox

\* the part of C14 the code has: the reset of a relocation environment never
\* completes
C14_RelocationResetNeverCompletes ==
    (cls = MoveNear /\ last.op = "reset") => last.raised # ""

(***************************************************************************)
(* Claims about the resolved model id and scale.                           *)
(***************************************************************************)
\* C16: a reset that supplies no model id resolves a member of the registered
\* candidate list; a reset that supplies one resolves exactly that one, and
\* (when it supplies a scale too, and does not go on to the base reset) leaves
\* the episode stream as it was seeded: no draw is used.
C16_ResolvedModelId ==
    (last.op = "reset" /\ "model_id" \in attrs) =>
        /\ last.arg_id = NoneId => model_id \in Range(model_ids)
        /\ last.arg_id # NoneId => model_id = last.arg_id
        /\ (/\ last.arg_id # NoneId
            /\ last.arg_scale # NoneScale
            /\ ~last.base_reached)
                => rng = SeedRng(episode_seed)

\* a reset that supplied no model id resolved the last registered candidate
C16_Witness ==
    /\ ResetReturned
    /\ last.arg_id = NoneId
    /\ model_id = model_ids[Len(model_ids)]

\* C17: a reset that supplies no scale resolves a member of the allowed
\* scales of the model resolved in the same reset if the database lists any,
\* and 1.0 otherwise; a supplied scale is used unchanged.
C17_ResolvedScale ==
    ResetSetFlag =>
        /\ last.arg_scale = NoneScale =>
                IF model_db[model_id].scales # <<>>
                THEN model_scale \in Range(model_db[model_id].scales)
                ELSE model_scale = 10
        /\ last.arg_scale # NoneScale => model_scale = last.arg_scale

\* a reset that supplied no scale changed the model and resolved a listed
\* scale of the new model that is not 1.0
C17_Witness ==
    /\ ResetReturned
    /\ last.arg_scale = NoneScale
    /\ last.id_changed
    /\ model_db[model_id].scales # <<>>
    /\ model_scale \in Range(model_db[model_id].scales)
    /\ model_scale # 10

(***************************************************************************)
(* Claims about the settling procedure.                                    *)
(***************************************************************************)
\* the number of simulation steps of one fixed settle phase
PhaseSteps == (sim_freq * 5) \div 10

\* the positions of the simulation steps in the record of the last settling
\* procedure
StepsAt == {i \in 1 .. Len(settle_log) : settle_log[i].op = "step"}

\* the position of the lock of the rotation about the two horizontal axes
LockAt ==
    CHOOSE i \in 1 .. Len(settle_log) :
        settle_log[i] = Event("lock_motion", <<0, 0, 0, 1, 1, 0>>)

\* the height the object is dropped from: the table height + 0.5
DropHeight == IF cls = MoveNear THEN 85 + 50 ELSE 84 + 50

\* C19: the settling procedure places the object at the requested x/y at
\* table height + 0.5, locks the rotation about the two horizontal axes only,
\* steps for 0.5 s, releases all locks, sets the current pose again and zeroes
\* both velocities, and steps for another 0.5 s; no step comes before the
\* lock and none between the unlock and the velocity reset.
C19_SettleOrder ==
    settle_log # <<>> =>
        /\ settle_log[1] = Event("set_pose", <<obj_xy, DropHeight>>)
        /\ \E i \in 1 .. Len(settle_log) :
                settle_log[i] = Event("lock_motion", <<0, 0, 0, 1, 1, 0>>)
        /\ \A i \in 1 .. LockAt : i \notin StepsAt
        /\ \A i \in 1 .. PhaseSteps : LockAt + i \in StepsAt
        /\ LET u == LockAt + PhaseSteps + 1 IN
           /\ settle_log[u] = Event("lock_motion", <<0, 0, 0, 0, 0, 0>>)
           /\ settle_log[u + 1] = Event("set_pose", <<>>)
           /\ settle_log[u + 2] = Event("set_velocity", <<0, 0, 0>>)
           /\ settle_log[u + 3] = Event("set_angular_velocity", <<0, 0, 0>>)
           /\ \A i \in 1 .. PhaseSteps : u + 3 + i \in StepsAt

\* a relocation environment ran the settling procedure on an object placed
\* at a requested x/y
C19_Witness ==
    /\ cls = MoveNear
    /\ "init_xy" \in DOMAIN obj_init_options
    /\ last.op = "initialize_actors"
    /\ last.raised = ""
    /\ settle_log # <<>>
    /\ settle_log[1].arg[1] = obj_init_options.init_xy[1]
    /\ Cardinality(StepsAt) >= 2 * PhaseSteps

\* the speeds read after the two fixed settle phases exceed a threshold
TooFast ==
    \E i \in 1 .. Len(settle_log) :
        /\ settle_log[i].op = "read_velocity"
        /\ settle_log[i].arg[1] > 1 \/ settle_log[i].arg[2] > 10

\* the positions of the simulation steps after the speeds are read
ExtendedStepsAt ==
    {i \in StepsAt :
        \E j \in 1 .. i : settle_log[j].op = "read_velocity"}

\* C20 as stated: the settling procedure ends after 2 * int(sim_freq * 0.5)
\* steps, or that number plus int(sim_freq * 1.5), the latter if and only if
\* the linear speed exceeds 1e-3 or the angular speed 1e-2.
C20_ExtendedSettleIs15 ==
    settle_log # <<>> =>
        Cardinality(StepsAt) =
            2 * PhaseSteps
            + (IF TooFast THEN (sim_freq * 15) \div 10 ELSE 0)

\* C20 as the code has it: the extended settle runs once, after the two fixed
\* phases, if and only if the linear speed exceeds 1e-3 or the angular speed
\* 1e-2; it lasts 1.5 s in MoveNearInSceneEnv and 0.5 s in
\* GraspSingleInSceneEnv, and nothing follows it.
C20_ExtendedSettleOnce ==
    settle_log # <<>> =>
        LET extended == IF cls = MoveNear THEN 15 ELSE 5 IN
        /\ Cardinality(StepsAt \ ExtendedStepsAt) = 2 * PhaseSteps
        /\ Cardinality(ExtendedStepsAt) =
                (IF TooFast THEN (sim_freq * extended) \div 10 ELSE 0)
        /\ Cardinality({i \in 1 .. Len(settle_log) :
                            settle_log[i].op = "read_velocity"}) = 1

\* a reset of GraspSingleInSceneEnv read a speed above the threshold and ran
\* the extended settle
C20_Witness ==
    /\ cls = GraspSingle
    /\ ResetReturned
    /\ TooFast
    /\ ExtendedStepsAt # {}

(***************************************************************************)
(* Claims about the settled reference.                                     *)
(***************************************************************************)
\* the pose read at the end of the last settling procedure of
\* MoveNearInSceneEnv, with the speeds the object had then
PoseRead == settle_log[Len(settle_log)]

\* the last settling procedure of MoveNearInSceneEnv ran to its end
Settled ==
    /\ cls = MoveNear
    /\ settle_log # <<>>
    /\ PoseRead.op = "read_pose"

\* the last settling procedure ran the extended settle and the object was
\* still moving after it
NotConverged ==
    /\ Settled
    /\ TooFast
    /\ NeedsLongerSettle(PoseRead.arg[2])

\* C21: the settling procedure raises only for a missing actor or a malformed
\* position, never for an object that has not come to rest: when the object
\* is still moving after the extended settle the procedure returns and the
\* recorded settled height is the height of the pose the object has then;
\* every later evaluate that returns measures lifted_object_significantly
\* against that height.
C21_SettleAcceptsNonConvergence ==
    /\ (/\ cls = MoveNear
        /\ last.op = "initialize_actors"
        /\ obj # NoActor
        /\ ~Mismatched(obj_init_options))
            => (last.raised = "" /\ Settled)
    /\ NotConverged =>
        /\ "obj_height_after_settle" \in attrs
        /\ obj_height_after_settle = PoseRead.arg[1]
        /\ (last.op = "evaluate" /\ last.raised = "") =>
                (info.lifted_object_significantly <=>
                    (/\ info.lifted_object
                     /\ last.in_height - PoseRead.arg[1] > 2))

\* an object still moving after the extended settle was recorded above the
\* table, and an evaluate at a height that would count as lifted from the
\* table, but not from the recorded height, reported no significant lift
C21_Witness ==
    /\ NotConverged
    /\ PoseRead.arg[1] = scene_table_height + 1
    /\ last.op = "evaluate"
    /\ last.raised = ""
    /\ last.in_height = scene_table_height + 3
    /\ info.lifted_object
    /\ ~info.lifted_object_significantly

\* the last event of the record of a settling procedure is the pose read,
\* and every simulation step comes before it
SnapshotAfterSteps(log) ==
    /\ log # <<>>
    /\ log[Len(log)].op = "read_pose"
    /\ \A i \in 1 .. Len(log) - 1 : log[i].op # "read_pose"

\* C22: every reset of a relocation environment writes the settled height
\* once, from the pose read after the last settle phase of that reset, and no
\* evaluate changes it.
C22_SnapshotOncePerEpisode ==
    [][/\ (cls = MoveNear /\ last'.op = "reset") =>
            /\ last'.base_reached
            /\ "obj_height_after_settle" \in attrs'
            /\ SnapshotAfterSteps(settle_log')
            /\ obj_height_after_settle' = settle_log'[Len(settle_log')].arg[1]
       /\ last'.op = "evaluate" => UNCHANGED obj_height_after_settle]_vars

\* the part of C22 the code has: the settled height is assigned only by a
\* settling procedure that ran to its end, from the pose read after its last
\* simulation step; reset, _load_actors and evaluate leave it alone
C22_SnapshotWrittenBySettleOnly ==
    [][(\/ obj_height_after_settle' # obj_height_after_settle
        \/ ("obj_height_after_settle" \in attrs') #
                ("obj_height_after_settle" \in attrs)) =>
            /\ last'.op = "initialize_actors"
            /\ last'.raised = ""
            /\ SnapshotAfterSteps(settle_log')
            /\ obj_height_after_settle' = settle_log'[Len(settle_log')].arg[1]]_vars

(***************************************************************************)
(* Claims about the bounding-box size.                                     *)
(***************************************************************************)
\* C23: after every reset in which _set_model returned, whether or not it
\* set reconfigure, the recorded bounding-box size is (bbox max - bbox min)
\* of the database record of the recorded model id times the recorded scale,
\* or is None when that record has no bbox.
C23_BBoxOfResolvedModel ==
    ResetSetFlag =>
        LET rec == model_db[model_id] IN
        IF rec.has_bbox
        THEN /\ Len(model_bbox_size) = 3
             /\ \A i \in 1 .. 3 :
                    model_bbox_size[i] =
                        (rec.bbox_max[i] - rec.bbox_min[i]) * model_scale
        ELSE model_bbox_size = NoneBBox

\* a reset that changed neither the model nor the scale, and did not set
\* reconfigure, left the bounding-box size of a model scaled by 0.5
C23_Witness ==
    /\ ResetReturned
    /\ ~last.id_changed
    /\ ~last.scale_changed
    /\ ~last.reconfigure
    /\ model_scale = 5
    /\ model_bbox_size # NoneBBox

(***************************************************************************)
(* Claims about the grasp evaluator of move_near_in_scene.py.              *)
(***************************************************************************)
\* the step is an evaluate call of MoveNearInSceneEnv
EvaluateStep == cls = MoveNear /\ last'.op = "evaluate" /\ reward' = NoReward

\* C24: an evaluate call of MoveNearInSceneEnv that finds the object grasped
\* adds exactly one to the grasp counter (if the counter exists), one that
\* does not sets it to zero; and the consecutive_grasp flag a call reports is
\* true exactly when the object was grasped in that call and in at least the
\* four evaluate calls immediately before it.
C24_ConsecutiveGraspCounts ==
    [][EvaluateStep =>
        /\ (last'.in_grasped /\ "consecutive_grasp" \in attrs) =>
                consecutive_grasp' = consecutive_grasp + 1
        /\ ~last'.in_grasped =>
                (consecutive_grasp' = 0 /\ "consecutive_grasp" \in attrs')
        /\ last'.raised = "" =>
                (info'.consecutive_grasp <=> grasp_run' >= 5)]_vars

\* the object was grasped in five evaluate calls in a row and the fifth
\* reported the flag true
C24_Witness ==
    /\ cls = MoveNear
    /\ last.op = "evaluate"
    /\ last.raised = ""
    /\ grasp_run = 5
    /\ consecutive_grasp = 5
    /\ info.consecutive_grasp

\* the last call was an evaluate of MoveNearInSceneEnv that returned
GraspEvaluated == cls = MoveNear /\ last.op = "evaluate" /\ last.raised = ""

\* C25: an evaluate call of MoveNearInSceneEnv reports lifted_object (and,
\* when lifting is required, success) true only if the object is grasped in
\* that call, and lifted_object_significantly true only if lifted_object is
\* true and the object is more than 0.02 above its settled height.
C25_LiftedOnlyWhenGrasped ==
    GraspEvaluated =>
        /\ ~last.in_grasped => ~info.lifted_object
        /\ (require_lifting_obj_for_success /\ ~last.in_grasped) => ~info.success
        /\ info.lifted_object_significantly =>
                /\ info.lifted_object
                /\ last.in_height - obj_height_after_settle > 2

\* the part of C25 the code has: lifted_object_significantly is reported
\* true only with lifted_object and a height more than 0.02 above the
\* settled one, and a call that neither finds the object grasped nor finds
\* it free of contacts reports lifted_object = false
C25_SignificantlyAboveSettled ==
    GraspEvaluated =>
        /\ (~last.in_grasped /\ ~last.in_flag) => ~info.lifted_object
        /\ info.lifted_object_significantly <=>
                (/\ info.lifted_object
                 /\ last.in_height - obj_height_after_settle > 2)

(***************************************************************************)
(* Claims about the caller's options.                                      *)
(***************************************************************************)
\* C26: when a reset of MoveNearInSceneEnv or of
\* GraspSingleCustomOrientationInSceneEnv ends, the options dict the caller
\* passed, its nested obj_init_options included, has the keys and values it
\* had before the call; and a reset without obj_init_options does not use
\* those of an earlier reset.
C26_CallerOptionsUnchanged ==
    (last.op = "reset" /\ cls \in {MoveNear, CustomOrientation}) =>
        /\ last.options_after = last.options
        /\ (cls = MoveNear /\ "obj_init_options" \notin Keys(last.options))
                => obj_init_options = EmptyDict

\* the part of C26 the code has: the reset of MoveNearInSceneEnv leaves the
\* caller's dict as it was, and records the obj_init_options of this call or
\* an empty dict
C26_RelocationResetCopies ==
    (last.op = "reset" /\ cls = MoveNear) =>
        /\ last.options_after = last.options
        /\ obj_init_options = Get(last.options, "obj_init_options", EmptyDict)

(***************************************************************************)
(* Claims about the controllers of the Google robot config.                *)
(***************************************************************************)
\* s starts with p
HasPrefix(s, p) == Len(s) >= Len(p) /\ SubSeq(s, 1, Len(p)) = p

\* C27: every mapping the controllers property returns has six entries,
\* exactly one for each pair of an arm controller and a gripper controller;
\* every entry has an arm and a gripper_finger controller; and an entry has
\* a base controller, and a name that starts with the base controller's
\* name, if and only if the config was built with mobile_base = true.
C27_OneEntryPerPair ==
    \A i \in 1 .. Len(returned_log) :
        LET m == returned_log[i].contents
            mobile == robot_config.mobile_base
        IN
        /\ Cardinality(DOMAIN m) = 6
        /\ \A frame \in {"ee", "base"}, use_target \in BOOLEAN, use_delta \in BOOLEAN :
                (frame = "ee" => ~use_target) =>
                    Cardinality({n \in DOMAIN m :
                        /\ m[n].arm.class = "PDEEPoseControllerConfig"
                        /\ m[n].arm.frame = frame
                        /\ m[n].arm.use_target = use_target
                        /\ m[n].gripper_finger.class = "PDJointPosMimicControllerConfig"
                        /\ m[n].gripper_finger.use_delta = use_delta}) = 1
        /\ \A n \in DOMAIN m :
                /\ {"arm", "gripper_finger"} \subseteq DOMAIN m[n]
                /\ ("base" \in DOMAIN m[n]) <=> mobile
                /\ HasPrefix(n, "base_pd_joint_vel_") <=> mobile
                /\ "base" \in DOMAIN m[n] =>
                        m[n].base.class = "PDBaseVelControllerConfig"

\* a config with a mobile base returned an entry whose name starts with the
\* base controller's name, and that has a base controller
C27_Witness ==
    /\ robot_config.mobile_base
    /\ Len(returned_log) >= 1
    /\ "base_pd_joint_vel_arm_pd_ee_delta_pose_base_gripper_finger_pd_joint_delta_pos"
            \in DOMAIN returned_log[1].contents
    /\ \A n \in DOMAIN returned_log[1].contents :
            "base" \in DOMAIN returned_log[1].contents[n]

====
